---- MODULE Spec2Model ----
(***************************************************************************)
(* Model of the autocomplete matching core of the estate-scraper front     *)
(* end: normalize and cityFilter of src/src/lib/utils.js (duplicated in    *)
(* src/src/components/UiComponents.jsx).                                   *)
(*                                                                         *)
(* A JavaScript string is a sequence of UTF-16 code units; every code      *)
(* unit is written as a one-element TLA+ string, ASCII characters as       *)
(* themselves and the others by code point ("U+00E9").  A JavaScript value *)
(* is a record [t, v]: t is its type tag and v its payload.  A call that   *)
(* throws completes with the value TypeError.                              *)
(*                                                                         *)
(* Scores are held in hundredths (score * 100) so that the 0.01 * length   *)
(* penalty of the substring tier stays an integer.  For the label lengths  *)
(* the model reaches the IEEE doubles of the code order exactly as these   *)
(* integers do.                                                            *)
(***************************************************************************)
EXTENDS Integers, Sequences, FiniteSets, TLC

VARIABLES pc, s, n1, n2, options, inputValue, result, result2

\* The state of the application: the hooks of SearchPage and
\* SectionContainer (step, filter, sectionError), the draft of each
\* DoubleSlider of FilterSection (draft), the hooks of App (error,
\* loading, results), the build-time API_BASE, and the final submit in
\* flight: its position (task), the request body (payload), the promise of
\* fetch (fetchP), the timer and the promise of withTimeout (timer, wtP),
\* the promise of scrape (scrapeP) and the value tempScrape returned (ret).
VARIABLES step, filter, draft, sectionError, error, loading, results,
          apiBase, task, payload, fetchP, timer, wtP, scrapeP, ret

\* LoadingSpinner: its props (value, time), its progress hook, the
\* interval its timed effect holds and the ticks of that interval so far.
VARIABLES value, time, progress, interval, ticks

spinnerVars == <<value, time, progress, interval, ticks>>

utilVars == <<pc, s, n1, n2, options, inputValue, result, result2>>

pageVars == <<step, filter, draft, sectionError>>

callVars == <<task, payload, fetchP, timer, wtP, scrapeP, ret>>

appVars == <<step, filter, draft, sectionError, error, loading, results,
             apiBase, task, payload, fetchP, timer, wtP, scrapeP, ret>>

vars == <<pc, s, n1, n2, options, inputValue, result, result2,
          step, filter, draft, sectionError, error, loading, results,
          apiBase, task, payload, fetchP, timer, wtP, scrapeP, ret,
          value, time, progress, interval, ticks>>

\* Longest string handed to normalize.
MaxLen == 3
\* Longest options array handed to cityFilter.
MaxOptions == 3

(***************************************************************************)
(* JavaScript values                                                       *)
(***************************************************************************)
Str(cs) == [t |-> "string", v |-> cs]
Obj(cs) == [t |-> "object", v |-> cs]
Arr(xs) == [t |-> "array", v |-> xs]
Undefined == [t |-> "undefined", v |-> <<>>]
Null == [t |-> "null", v |-> <<>>]
TypeError == [t |-> "TypeError", v |-> <<>>]

(***************************************************************************)
(* Character data (Unicode 14) for the code units the model uses           *)
(***************************************************************************)
UpperAZ == <<"A", "B", "C", "D", "E", "F", "G", "H", "I", "J", "K", "L", "M",
             "N", "O", "P", "Q", "R", "S", "T", "U", "V", "W", "X", "Y", "Z">>
LowerAZ == <<"a", "b", "c", "d", "e", "f", "g", "h", "i", "j", "k", "l", "m",
             "n", "o", "p", "q", "r", "s", "t", "u", "v", "w", "x", "y", "z">>

\* General category Lu.
Uppercase == {UpperAZ[i] : i \in 1..26} \cup {"U+00C9", "U+00C0"}

\* General category Mn: combining grave, acute, asterisk below (U+0359) and
\* combining Latin small letter a (U+0363).
NonspacingMark == {"U+0300", "U+0301", "U+0359", "U+0363"}

\* Binary property Diacritic (PropList.txt): it has spacing members such as
\* "^" and MIDDLE DOT (U+00B7), and lacks U+0359 and U+0363.
Diacritic == {"^", "U+00B7", "U+0300", "U+0301"}

\* General category P among the model's code units.
Punctuation == {"'", "-", "U+00B7"}

\* ECMAScript WhiteSpace and LineTerminator, as removed by trim.
WhiteSpace == {" ", "U+00A0"}

\* Canonical_Combining_Class.
CombiningClass(c) ==
    IF c \in {"U+0300", "U+0301", "U+0363"} THEN 230
    ELSE IF c = "U+0359" THEN 220
    ELSE 0

\* Canonical decomposition of one code unit.
Decomposition(c) ==
    CASE c = "U+00E9" -> <<"e", "U+0301">>
      [] c = "U+00E0" -> <<"a", "U+0300">>
      [] c = "U+00C9" -> <<"E", "U+0301">>
      [] c = "U+00C0" -> <<"A", "U+0300">>
      [] OTHER -> <<c>>

\* Lowercase mapping of one code unit.
LowerCaseOf(c) ==
    IF \E i \in 1..26 : UpperAZ[i] = c
    THEN LowerAZ[CHOOSE i \in 1..26 : UpperAZ[i] = c]
    ELSE CASE c = "U+00C9" -> "U+00E9"
           [] c = "U+00C0" -> "U+00E0"
           [] OTHER -> c

(***************************************************************************)
(* String.prototype methods used by normalize                              *)
(***************************************************************************)
toLowerCase(cs) == [i \in 1..Len(cs) |-> LowerCaseOf(cs[i])]

RECURSIVE Decompose(_)
Decompose(cs) ==
    IF cs = <<>> THEN <<>>
    ELSE Decomposition(Head(cs)) \o Decompose(Tail(cs))

\* Canonical ordering: adjacent code units with combining classes
\* a > b > 0 are exchanged until none is left.
RECURSIVE CanonicalOrder(_)
CanonicalOrder(cs) ==
    LET bad == {i \in 1..(Len(cs) - 1) :
                   /\ CombiningClass(cs[i + 1]) > 0
                   /\ CombiningClass(cs[i]) > CombiningClass(cs[i + 1])}
    IN  IF bad = {} THEN cs
        ELSE LET i == CHOOSE k \in bad : \A m \in bad : k <= m
             IN  CanonicalOrder([k \in 1..Len(cs) |->
                                    IF k = i THEN cs[i + 1]
                                    ELSE IF k = i + 1 THEN cs[i]
                                    ELSE cs[k]])

\* s.normalize("NFD")
NFD(cs) == CanonicalOrder(Decompose(cs))

IsNotDiacritic(c) == c \notin Diacritic

\* s.replace(/\p{Diacritic}/gu, "")
StripDiacritics(cs) == SelectSeq(cs, IsNotDiacritic)

RECURSIVE TrimStart(_)
TrimStart(cs) ==
    IF cs # <<>> /\ Head(cs) \in WhiteSpace THEN TrimStart(Tail(cs)) ELSE cs

RECURSIVE TrimEnd(_)
TrimEnd(cs) ==
    IF cs # <<>> /\ cs[Len(cs)] \in WhiteSpace
    THEN TrimEnd(SubSeq(cs, 1, Len(cs) - 1))
    ELSE cs

\* s.trim()
trim(cs) == TrimEnd(TrimStart(cs))

(***************************************************************************)
(* normalize (utils.js 32-33)                                              *)
(***************************************************************************)
\* The default parameter s = "" replaces undefined only.
DefaultParam(x) == IF x.t = "undefined" THEN Str(<<>>) ELSE x

\* A method call on null, or a call of the missing toLowerCase of an
\* object, throws a TypeError.
normalize(x) ==
    LET a == DefaultParam(x)
    IN  IF a.t = "string"
        THEN Str(trim(StripDiacritics(NFD(toLowerCase(a.v)))))
        ELSE TypeError

(***************************************************************************)
(* cityFilter (utils.js 84-103)                                            *)
(***************************************************************************)
\* n.startsWith(q)
startsWith(n, q) == Len(q) <= Len(n) /\ SubSeq(n, 1, Len(q)) = q

\* n.indexOf(q): the first 0-based index at which q occurs in n, else -1.
indexOf(n, q) ==
    LET at == {i \in 0..(Len(n) - Len(q)) : SubSeq(n, i + 1, i + Len(q)) = q}
    IN  IF at = {} THEN -1 ELSE CHOOSE i \in at : \A k \in at : i <= k

\* 800 - label.length, in hundredths.
PrefixScore(len) == 80000 - 100 * len

\* Mutant: the substring tier starts from the base of the prefix tier.
SubstringScoreFrom800(idx, len) == 80000 - 100 * idx - len

\* 600 - idx - label.length * 0.01, in hundredths.
SubstringScore(idx, len) == 60000 - 100 * idx - len

\* Mutant: the exact-match branch is missing, an exact match is scored as
\* the prefix match it also is.
ScoreWithoutExact(label, q) ==
    LET n == normalize(label).v
    IN  IF startsWith(n, q) THEN PrefixScore(Len(label.v))
        ELSE LET idx == indexOf(n, q)
             IN  IF idx >= 0 THEN SubstringScore(idx, Len(label.v)) ELSE 0

\* Mutant: the penalties use the length of the normalized label.
ScoreByNormalizedLength(label, q) ==
    LET n == normalize(label).v
    IN  IF n = q THEN 100000
        ELSE IF startsWith(n, q) THEN PrefixScore(Len(n))
        ELSE LET idx == indexOf(n, q)
             IN  IF idx >= 0 THEN SubstringScore(idx, Len(n)) ELSE 0

\* The score the map callback gives to one label for the normalized query
\* q; label.length is the length of the label as passed in.
Score(label, q) ==
    LET n == normalize(label).v
    IN  IF n = q THEN 100000
        ELSE IF startsWith(n, q) THEN PrefixScore(Len(label.v))
        ELSE LET idx == indexOf(n, q)
             IN  IF idx >= 0 THEN SubstringScore(idx, Len(label.v)) ELSE 0

\* .map((label) => { ...; return { label, score }; })
MapScore(xs, q) ==
    [i \in 1..Len(xs) |-> [label |-> xs[i], score |-> Score(xs[i], q)]]

IsPositive(x) == x.score > 0

IsNotNegative(x) == x.score >= 0

\* Mutant: the filter keeps the options that scored 0.
FilterNotNegative(xs) == SelectSeq(xs, IsNotNegative)

\* .filter(x => x.score > 0)
FilterPositive(xs) == SelectSeq(xs, IsPositive)

\* (a, b) => b.score - a.score
Compare(a, b) == b.score - a.score

\* Mutant: an unstable sort, x goes in front of the elements it ties with.
RECURSIVE InsertBeforeEqual(_, _)
InsertBeforeEqual(x, xs) ==
    IF xs = <<>> THEN <<x>>
    ELSE IF Compare(Head(xs), x) < 0
         THEN <<Head(xs)>> \o InsertBeforeEqual(x, Tail(xs))
         ELSE <<x>> \o xs

\* Array.prototype.sort is stable: x, which followed every element of xs in
\* the array, goes behind the elements the comparator does not put after it.
RECURSIVE Insert(_, _)
Insert(x, xs) ==
    IF xs = <<>> THEN <<x>>
    ELSE IF Compare(Head(xs), x) <= 0
         THEN <<Head(xs)>> \o Insert(x, Tail(xs))
         ELSE <<x>> \o xs

\* Mutant: a sort that reverses the elements that tie.
RECURSIVE sortReversingTies(_)
sortReversingTies(xs) ==
    IF xs = <<>> THEN <<>>
    ELSE InsertBeforeEqual(xs[Len(xs)],
                           sortReversingTies(SubSeq(xs, 1, Len(xs) - 1)))

\* .sort((a, b) => b.score - a.score)
RECURSIVE sort(_)
sort(xs) ==
    IF xs = <<>> THEN <<>>
    ELSE Insert(xs[Len(xs)], sort(SubSeq(xs, 1, Len(xs) - 1)))

\* Mutant: the result carries the normalized labels.
LabelsNormalized(xs) == [i \in 1..Len(xs) |-> normalize(xs[i].label)]

\* .map(x => x.label)
Labels(xs) == [i \in 1..Len(xs) |-> xs[i].label]

\* Mutant: no early return for an empty query.
cityFilterWithoutEarlyReturn(opts, iv) ==
    LET q == normalize(iv)
    IN  IF q.t = "TypeError" THEN TypeError
        ELSE IF opts.t # "array" THEN TypeError
        ELSE IF \E i \in 1..Len(opts.v) : normalize(opts.v[i]).t = "TypeError"
        THEN TypeError
        ELSE Arr(Labels(sort(FilterPositive(MapScore(opts.v, q.v)))))

\* cityFilter(opts, { inputValue: iv }).  The callback of the first map
\* throws at the first option that is not a string, and null has no map.
cityFilter(opts, iv) ==
    LET q == normalize(iv)
    IN  IF q.t = "TypeError" THEN TypeError
        ELSE IF q.v = <<>> THEN opts
        ELSE IF opts.t # "array" THEN TypeError
        ELSE IF \E i \in 1..Len(opts.v) : normalize(opts.v[i]).t = "TypeError"
        THEN TypeError
        ELSE Arr(Labels(sort(FilterPositive(MapScore(opts.v, q.v)))))

(***************************************************************************)
(* Inputs                                                                  *)
(***************************************************************************)
\* All strings of at most n code units over the alphabet S.
Strings(S, n) == UNION {[1..k -> S] : k \in 0..n}

\* Code units of the strings handed to normalize.
NormChars == {"a", "A", "U+00E9", "U+00C9", " ", "'", "^", "U+00B7",
              "U+0301", "U+0359", "U+0363"}

Roma == Str(<<"R", "o", "m", "a">>)
Milano == Str(<<"M", "i", "l", "a", "n", "o">>)
Firenze == Str(<<"F", "i", "r", "e", "n", "z", "e">>)
Rimini == Str(<<"R", "i", "m", "i", "n", "i">>)
Pesaro == Str(<<"P", "e", "s", "a", "r", "o">>)
PesaroAccented == Str(<<"P", "U+00E9", "s", "U+00E0", "r", "o">>)
Bari == Str(<<"B", "a", "r", "i">>)
Ro == Str(<<"R", "o">>)

\* "Roma" with a combining acute accent behind the o: five code units
\* that normalize to "roma".
RomaDecomposed == Str(<<"R", "o", "U+0301", "m", "a">>)

\* Two labels of different length and the same normalized form.
SameNormalForm == <<RomaDecomposed, Roma>>

\* The options of the example in the documentation of cityFilter.
ExampleCities == <<Roma, Milano, Firenze, Rimini>>

\* The options an array is built from: place names, and an object option
\* { label: "Roma" }.
Pool == {Roma, Milano, Firenze, Rimini, Pesaro, PesaroAccented, Bari, Ro,
         Obj(Roma.v)}

\* The values of inputValue.
Queries == {Undefined, Null, Str(<<>>), Str(<<" ">>), Str(<<"r", "i">>),
            Str(<<"r", "o">>), Str(<<"R", "O", " ">>), Str(<<"a">>),
            Str(<<"x">>), Str(<<"m", "i", "l", "a", "n", "o">>),
            Str(<<"p", "e", "s", "a", "r", "o">>)}

\* A variable no call has written yet.
Pending == [t |-> "pending", v |-> <<>>]

(***************************************************************************)
(* Values of the application state                                         *)
(***************************************************************************)
\* The value of the error hook: null, a string, or the object tempScrape
\* builds.  A property an object does not have reads as "undefined".
NoError ==
    [t |-> "null", text |-> <<>>, title |-> "undefined",
     paragraph |-> <<>>, buttonText |-> "undefined",
     onClick |-> "undefined", onClickFunc |-> "undefined"]

ErrorString(msg) == [NoError EXCEPT !.t = "string", !.text = msg]

\* A settled or pending promise: the error of a rejection (name, message)
\* or the value of a fulfilment.  A fetch response carries ok and status,
\* and body, the JSON its text parses to.
JsonNull == [t |-> "null", ok |-> "undefined", results |-> Undefined]

NoPromise ==
    [state |-> "none", name |-> "", message |-> <<>>, ok |-> FALSE,
     status |-> "", value |-> JsonNull]

PendingPromise == [NoPromise EXCEPT !.state = "pending"]

Fulfilled(v) == [NoPromise EXCEPT !.state = "fulfilled", !.value = v]

Rejected(name, message) ==
    [NoPromise EXCEPT !.state = "rejected", !.name = name,
                      !.message = message]

\* A number, as a filter field holds it.
Num(n) == [t |-> "number", v |-> <<n>>]

BASEFILTER ==
    [city |-> Str(<<>>), type |-> Null,
     lower_price |-> Null, higher_price |-> Null,
     lower_mq |-> Null, higher_mq |-> Null,
     lower_rooms |-> Null, higher_rooms |-> Null,
     why |-> Null, request_description |-> Str(<<>>)]

\* The three DoubleSlider of FilterSection: their min and max props and
\* the pair of filter fields each one's onCommit writes.
Sliders == {"price", "mq", "rooms"}

SliderMin(sl) == IF sl = "rooms" THEN 1 ELSE 0

SliderMax(sl) ==
    IF sl = "price" THEN 9999999 ELSE IF sl = "mq" THEN 700 ELSE 20

LowerField(sl) ==
    IF sl = "price" THEN "lower_price"
    ELSE IF sl = "mq" THEN "lower_mq" ELSE "lower_rooms"

HigherField(sl) ==
    IF sl = "price" THEN "higher_price"
    ELSE IF sl = "mq" THEN "higher_mq" ELSE "higher_rooms"

\* x ?? d, for a field holding a number or null.
OrDefault(x, d) == IF x.t = "null" \/ x.t = "undefined" THEN d ELSE x.v[1]

\* The value prop FilterSection hands to a slider.
SliderValue(f, sl) ==
    <<OrDefault(f[LowerField(sl)], SliderMin(sl)),
      OrDefault(f[HigherField(sl)], SliderMax(sl))>>

\* useState of DoubleSlider on mount: the draft starts at the value prop.
MountDraft(f) == [sl \in Sliders |-> SliderValue(f, sl)]

\* FilterSection is rendered at step 0 only; elsewhere no slider exists.
NoDraft == [sl \in Sliders |-> <<>>]

\* No LoadingSpinner is mounted.
NoSpinner ==
    /\ value = Null
    /\ time = Null
    /\ progress = 0
    /\ interval = "none"
    /\ ticks = 0

\* The application before any interaction, for the given API_BASE.
AppInitial(base) ==
    /\ step = 0
    /\ filter = BASEFILTER
    /\ draft = MountDraft(BASEFILTER)
    /\ sectionError = "null"
    /\ error = NoError
    /\ loading = FALSE
    /\ results = Null
    /\ apiBase = base
    /\ task = "idle"
    /\ payload = Null
    /\ fetchP = NoPromise
    /\ timer = "none"
    /\ wtP = NoPromise
    /\ scrapeP = NoPromise
    /\ ret = JsonNull

(***************************************************************************)
(* The calls                                                               *)
(***************************************************************************)
InitNormalize ==
    /\ pc = "normalize"
    /\ s \in {Undefined, Null} \cup {Str(cs) : cs \in Strings(NormChars, MaxLen)}
    /\ options = Null
    /\ inputValue = Undefined

InitCityFilter ==
    /\ pc = "cityFilter"
    /\ s = Undefined
    /\ options \in {Null, Arr(ExampleCities), Arr(SameNormalForm)}
                      \cup {Arr(xs) : xs \in Strings(Pool, MaxOptions)}
    /\ inputValue \in Queries

Init ==
    /\ InitNormalize \/ InitCityFilter
    /\ n1 = Pending
    /\ n2 = Pending
    /\ result = Pending
    /\ result2 = Pending
    /\ AppInitial(TRUE)
    /\ NoSpinner

\* normalize(s)
CallNormalize ==
    /\ pc = "normalize"
    /\ n1' = normalize(s)
    /\ pc' = "normalized"
    /\ UNCHANGED <<s, n2, options, inputValue, result, result2>>
    /\ UNCHANGED <<appVars, spinnerVars>>

\* normalize(normalize(s)), when the first call returned.
CallNormalizeAgain ==
    /\ pc = "normalized"
    /\ n1.t = "string"
    /\ n2' = normalize(n1)
    /\ pc' = "renormalized"
    /\ UNCHANGED <<s, n1, options, inputValue, result, result2>>
    /\ UNCHANGED <<appVars, spinnerVars>>

\* cityFilter(options, { inputValue })
CallCityFilter ==
    /\ pc = "cityFilter"
    /\ result' = cityFilter(options, inputValue)
    /\ pc' = "filtered"
    /\ UNCHANGED <<s, n1, n2, options, inputValue, result2>>
    /\ UNCHANGED <<appVars, spinnerVars>>

\* cityFilter(cityFilter(options, { inputValue }), { inputValue }), when the
\* first call returned.
CallCityFilterAgain ==
    /\ pc = "filtered"
    /\ result.t # "TypeError"
    /\ result2' = cityFilter(result, inputValue)
    /\ pc' = "refiltered"
    /\ UNCHANGED <<s, n1, n2, options, inputValue, result>>
    /\ UNCHANGED <<appVars, spinnerVars>>

Next ==
    \/ CallNormalize
    \/ CallNormalizeAgain
    \/ CallCityFilter
    \/ CallCityFilterAgain

Spec == Init /\ [][Next]_vars

(***************************************************************************)
(* Properties of cityFilter                                                *)
(***************************************************************************)
\* The normalized query of the call.
Query == normalize(inputValue).v

\* cityFilter has returned an array.
Returned == pc = "filtered" /\ result.t = "array" /\ options.t = "array"

\* cityFilter has returned an array for a query whose normalized form is
\* not empty.
Ranked == Returned /\ normalize(inputValue).t = "string" /\ Query # <<>>

\* The number of occurrences of x in xs.
Count(xs, x) == Cardinality({i \in 1..Len(xs) : xs[i] = x})

\* The tier of a label: 3 exact, 2 prefix, 1 substring, 0 no match.
Tier(label, q) ==
    LET n == normalize(label).v
    IN  IF n = q THEN 3
        ELSE IF startsWith(n, q) THEN 2
        ELSE IF \E i \in 1..(Len(n) - Len(q) + 1) :
                    SubSeq(n, i, i + Len(q) - 1) = q THEN 1
        ELSE 0

\* C1: for a query whose normalized form is not empty, the returned list is
\* in order of non-increasing score and holds no option of score <= 0.
C1_SortedAndPositive ==
    Ranked =>
        /\ \A i \in 1..Len(result.v) : Score(result.v[i], Query) > 0
        /\ \A i, j \in 1..Len(result.v) :
              i < j => Score(result.v[i], Query) >= Score(result.v[j], Query)

\* The call dropped an option and moved a later option in front of an
\* earlier one.
C1_Witness ==
    /\ Ranked
    /\ Len(result.v) >= 2
    /\ Len(result.v) < Len(options.v)
    /\ Score(result.v[1], Query) > Score(result.v[2], Query)
    /\ \E i, j \in 1..Len(options.v) :
          /\ i < j
          /\ 0 < Score(options.v[i], Query)
          /\ Score(options.v[i], Query) < Score(options.v[j], Query)

\* C2: every element of the returned list is an element of the options,
\* unchanged, and occurs in it at most as often as in the options.
C2_SubBagOfOptions ==
    Returned =>
        \A i \in 1..Len(result.v) :
            /\ Count(options.v, result.v[i]) >= 1
            /\ Count(result.v, result.v[i]) <= Count(options.v, result.v[i])

\* A ranked call that kept both occurrences of an option whose normalized
\* form differs from it, and dropped another option.
C2_Witness ==
    /\ Ranked
    /\ Len(result.v) < Len(options.v)
    /\ \E i \in 1..Len(result.v) :
          /\ Count(result.v, result.v[i]) = 2
          /\ normalize(result.v[i]) # result.v[i]

\* C3: when the normalized query is empty the options are returned
\* unchanged.
C3_EmptyQueryReturnsOptions ==
    (/\ pc = "filtered"
     /\ normalize(inputValue).t = "string"
     /\ Query = <<>>) => result = options

\* A whitespace-only query over options a ranking would reorder and
\* reduce.
C3_Witness ==
    /\ pc = "filtered"
    /\ inputValue = Str(<<" ">>)
    /\ options = Arr(<<Pesaro, Obj(Roma.v), Ro>>)
    /\ result = options

\* Label lengths under 200.
LabelLengths == 1..199

\* For labels shorter than 200 the score bands of the three tiers do not
\* meet; a substring match that is not a prefix match has idx >= 1.
TierBandsDisjoint ==
    /\ \A len \in LabelLengths : 100000 > PrefixScore(len)
    /\ \A len, len2 \in LabelLengths :
          PrefixScore(len) > SubstringScore(1, len2)
    /\ \A idx \in LabelLengths, len2 \in LabelLengths :
          SubstringScore(1, len2) >= SubstringScore(idx, len2)

\* C4: exact matches score strictly higher than prefix matches, and prefix
\* matches strictly higher than substring matches, so that the returned
\* list holds the exact matches, then the prefix matches, then the
\* substring matches.
C4_TiersOrdered ==
    /\ TierBandsDisjoint
    /\ Ranked =>
          /\ \A i, j \in 1..Len(options.v) :
                (/\ Tier(options.v[j], Query) >= 1
                 /\ Tier(options.v[i], Query) > Tier(options.v[j], Query))
                => Score(options.v[i], Query) > Score(options.v[j], Query)
          /\ \A i, j \in 1..Len(result.v) :
                i < j => Tier(result.v[i], Query) >= Tier(result.v[j], Query)

\* The options held a substring, a prefix and an exact match in this order
\* and the call returned them reversed.
C4_Witness ==
    /\ Ranked
    /\ Len(options.v) = 3
    /\ \A i \in 1..3 : Tier(options.v[i], Query) = i
    /\ result.v = <<options.v[3], options.v[2], options.v[1]>>

\* C5: options of equal score keep their relative order.
C5_Stable ==
    Ranked =>
        \A k \in 1..Len(result.v) :
            LET Ties(x) == Score(x, Query) = Score(result.v[k], Query)
            IN  SelectSeq(result.v, Ties) = SelectSeq(options.v, Ties)

\* Two different options tie and the call returned both, behind an option
\* that followed them.
C5_Witness ==
    /\ Ranked
    /\ Len(result.v) = 3
    /\ result.v[2] # result.v[3]
    /\ Score(result.v[2], Query) = Score(result.v[3], Query)
    /\ result.v[1] = options.v[3]

\* C6: for "ri" and the options Roma, Milano, Firenze, Rimini the call
\* returns Rimini, Firenze.
C6_DocExample ==
    (/\ pc = "filtered"
     /\ options = Arr(ExampleCities)
     /\ inputValue = Str(<<"r", "i">>))
    => result = Arr(<<Rimini, Firenze>>)

\* C7: every option whose normalized label is the normalized query scores
\* 1000, is in the returned list, and precedes every option that is not an
\* exact match.
C7_ExactMatchFirst ==
    Ranked =>
        \A i \in 1..Len(options.v) :
            Tier(options.v[i], Query) = 3 =>
                /\ Score(options.v[i], Query) = 100000
                /\ Count(result.v, options.v[i]) = Count(options.v, options.v[i])
                /\ \A j, k \in 1..Len(result.v) :
                      (/\ result.v[j] = options.v[i]
                       /\ Tier(result.v[k], Query) # 3) => j < k

\* Pesaro and its accented spelling are both exact matches of the query,
\* and an exact match that differs from the typed query by case and
\* whitespace is returned in front of other matches.
C7_Witness ==
    /\ Ranked
    /\ \/ /\ Count(result.v, Pesaro) = 1
          /\ Count(result.v, PesaroAccented) = 1
          /\ Query = <<"p", "e", "s", "a", "r", "o">>
       \/ /\ inputValue = Str(<<"R", "O", " ">>)
          /\ Len(result.v) = 3
          /\ result.v[1] = Ro
          /\ options.v[3] = Ro

(***************************************************************************)
(* Properties of normalize                                                 *)
(***************************************************************************)
\* C8: normalize(normalize(s)) = normalize(s).
C8_Idempotent == pc = "renormalized" => n2 = n1

IsSpaceOrPunctuation(c) == c \in WhiteSpace \cup Punctuation

\* C9: normalize(s) has no uppercase letter, no nonspacing mark and no
\* whitespace at either end, and keeps the whitespace and the punctuation
\* inside s.
C9_NormalForm ==
    (pc = "normalized" /\ n1.t = "string") =>
        /\ \A i \in 1..Len(n1.v) : n1.v[i] \notin Uppercase
        /\ \A i \in 1..Len(n1.v) : n1.v[i] \notin NonspacingMark
        /\ n1.v # <<>> => n1.v[1] \notin WhiteSpace
        /\ n1.v # <<>> => n1.v[Len(n1.v)] \notin WhiteSpace
        /\ SelectSeq(n1.v, IsSpaceOrPunctuation)
             = SelectSeq(trim(s.v), IsSpaceOrPunctuation)

\* C10: normalize returns "" for undefined and for null, and cityFilter
\* returns the options for an undefined or null inputValue.
C10_NullishIsEmpty ==
    /\ (pc = "normalized" /\ s \in {Undefined, Null}) => n1 = Str(<<>>)
    /\ (pc = "filtered" /\ inputValue \in {Undefined, Null})
          => result = options

(***************************************************************************)
(* Further properties of cityFilter                                        *)
(***************************************************************************)
\* C11: for a query string, empty or not, cityFilter does not throw,
\* whether the options are a list of strings, an empty list or null, and it
\* returns an empty list for an empty list.
C11_NeverThrows ==
    (/\ pc = "filtered"
     /\ inputValue.t = "string"
     /\ \A i \in 1..Len(options.v) : options.v[i].t = "string") =>
        /\ result.t # "TypeError"
        /\ options = Arr(<<>>) => result = Arr(<<>>)

\* C12: for a query that is not empty, object options are scored by their
\* label and the matching objects are returned.
C12_ObjectOptions ==
    (/\ pc = "filtered"
     /\ options.t = "array"
     /\ normalize(inputValue).t = "string"
     /\ Query # <<>>) =>
        /\ result.t = "array"
        /\ \A i \in 1..Len(options.v) :
              (/\ options.v[i].t = "object"
               /\ Tier(Str(options.v[i].v), Query) >= 1)
              => Count(result.v, options.v[i]) = Count(options.v, options.v[i])

\* C13: cityFilter applied to its own result, for the same query, returns
\* that result.
C13_FilterIdempotent == pc = "refiltered" => result2 = result

\* The first call reordered and reduced options of which two tie, and the
\* second call was made on its result.
C13_Witness ==
    /\ pc = "refiltered"
    /\ result.t = "array"
    /\ Len(result.v) = 2
    /\ Len(options.v) = 3
    /\ result.v[1] # result.v[2]
    /\ Score(result.v[1], Query) = Score(result.v[2], Query)
    /\ result.v[1] = options.v[2]
    /\ result2.t = "array"

\* The score of C14 for the label c and the normalized query q, in
\* hundredths.
ClaimedScore(c, q) ==
    LET n == normalize(c).v
        found == {i \in 0..(Len(n) - Len(q)) : SubSeq(n, i + 1, i + Len(q)) = q}
    IN  IF n = q THEN 1000 * 100
        ELSE IF 0 \in found THEN (800 - Len(c.v)) * 100
        ELSE IF found # {}
             THEN LET idx == CHOOSE i \in found : \A k \in found : i <= k
                  IN  (600 - idx) * 100 - Len(c.v)
        ELSE 0

\* C14: the score is 1000 for an exact match, else 800 - length for a
\* prefix match, else 600 - idx - 0.01 * length for a substring match at
\* index idx, else 0, the length being that of the label as given; the
\* returned list is ordered by it.
C14_ScoreFormula ==
    Ranked =>
        /\ \A i \in 1..Len(options.v) :
              Score(options.v[i], Query) = ClaimedScore(options.v[i], Query)
        /\ \A i, j \in 1..Len(result.v) :
              i < j => ClaimedScore(result.v[i], Query)
                          >= ClaimedScore(result.v[j], Query)

\* Two labels of the same normalized form scored differently, and the
\* shorter one was moved in front of the longer one.
C14_Witness ==
    /\ Ranked
    /\ options = Arr(SameNormalForm)
    /\ normalize(RomaDecomposed) = normalize(Roma)
    /\ Score(RomaDecomposed, Query) > 0
    /\ Score(RomaDecomposed, Query) < Score(Roma, Query)
    /\ result = Arr(<<Roma, RomaDecomposed>>)

(***************************************************************************)
(* api.js: withTimeout and scrape                                          *)
(***************************************************************************)
\* Messages are sequences of fragments, joined as the code joins them.
ScrapePrefix == "[scrape] Error during scrape request: "

ApiBaseNotSet == <<"VITE_API_BASE is not set">>

StatusCodes == {"404", "500"}

\* The bodies a server can answer an OK response with: the documented
\* { ok, results } object with ok true, false or absent, and JSON null.
Listings == Arr(<<Roma>>)

JsonObject(ok, res) == [t |-> "object", ok |-> ok, results |-> res]

Bodies ==
    {JsonObject("true", Listings), JsonObject("true", Arr(<<>>)),
     JsonObject("false", Undefined), JsonObject("undefined", Listings),
     JsonNull}

Response(ok, status, body) ==
    [Fulfilled(body) EXCEPT !.ok = ok, !.status = status]

\* What fetch can settle to: a response of any status whose text is JSON,
\* an OK response whose text is not JSON (name "SyntaxError" is what
\* res.json() will reject with) and a network failure.
FetchOutcomes ==
    {Response(TRUE, "200", b) : b \in Bodies}
        \cup {[Response(TRUE, "200", JsonNull) EXCEPT !.name = "SyntaxError"]}
        \cup {Response(FALSE, st, JsonNull) : st \in StatusCodes}
        \cup {Rejected("TypeError", <<"Failed to fetch">>)}

\* String(error), as "..." + error builds it.
ErrorToString(e) == <<e.name, ": ">> \o e.message

\* new Error(`API ${res.status}: ${detail || res.statusText}`)
ApiError(res) == Rejected("Error", <<"API ", res.status, ": ", "detail">>)

\* The catch of scrape: every error thrown inside the try is replaced by a
\* plain Error whose message starts with the prefix.
ScrapeCatch(e) == Rejected("Error", <<ScrapePrefix>> \o ErrorToString(e))

\* scrape after its await: a rejection and a non-OK response go through
\* the catch; an OK response returns res.json() without awaiting it, so a
\* rejection of res.json() does not go through the catch.
ScrapeOutcome(w) ==
    IF w.state = "rejected" THEN ScrapeCatch(w)
    ELSE IF ~w.ok THEN ScrapeCatch(ApiError(w))
    ELSE IF w.name = "SyntaxError"
         THEN Rejected("SyntaxError", <<"Unexpected token">>)
    ELSE Fulfilled(w.value)

(***************************************************************************)
(* SearchPage.jsx: tempScrape                                              *)
(***************************************************************************)
GenericMessage ==
    <<"Si è verificato un problema imprevisto. Riprova più tardi.">>

TimeoutMessage ==
    <<"La richiesta ha impiegato troppo tempo e è stata interrotta. Riprova.">>

ServerMessage ==
    <<"Il server ha risposto con un errore. Riprova più tardi.">>

\* /^API\s+\d{3}/.test(rawMessage)
MatchesApiStatus(msg) ==
    /\ Len(msg) >= 2
    /\ msg[1] = "API "
    /\ msg[2] \in StatusCodes

UserMessage(err) ==
    IF err.name = "AbortError" THEN TimeoutMessage
    ELSE IF MatchesApiStatus(err.message) THEN ServerMessage
    ELSE IF err.message # <<>> THEN err.message
    ELSE GenericMessage

\* The object tempScrape hands to setError.
ErrorObject(msg) ==
    [t |-> "object", text |-> <<>>, title |-> "Errore nella ricerca",
     paragraph |-> msg, buttonText |-> "Torna alla ricerca",
     onClick |-> "setErrorNull", onClickFunc |-> "undefined"]

\* Both paths of tempScrape end with setLoading(false).
LoadingAfterCatchKept(l) == l

LoadingAfterCatch(l) == FALSE

(***************************************************************************)
(* SearchPage.jsx: SectionContainer; App.jsx; MessagePage.jsx              *)
(***************************************************************************)
CityRequired == "Inserire un comune valido per andare avanti"

SubmitFailed ==
    <<"Si è verificato un errore generico, riprova più tardi o contatta il supporto">>

\* !filter.city || filter.city == null || filter.city == ""
CityMissingOnlyNull(c) == c.t = "null"

CityMissing(c) == c.t = "null" \/ c.t = "undefined" \/ c.v = <<>>

\* buttonOnSubmit at step 1: setStep(step + 1) in the else branch only.
StepAfterProceedUnchecked(st, missing) == st + 1

StepAfterProceed(st, missing) == IF missing THEN st ELSE st + 1

\* The Back button is rendered unless step == 0.
BackOfferedAlways(st) == TRUE

BackOffered(st) == st # 0

\* buttonBackClick: setStep(step - 1) at step 1 or 2 only.
StepAfterBackToStart(st) == 0

StepAfterBack(st) == IF st = 1 \/ st = 2 THEN st - 1 ELSE st

\* What the city search bar can hand to handleSelect: an option or null.
Selections == {Null, Roma, Milano}

\* The values of SearchTypeOption a type button can set.
TypeValues == {Null, Num(1)}

\* What itemOnChange builds with itemValueToName: category, " - ", label.
WhyNames == {Str(<<"Investimento Privato", " - ", "Prima Casa">>)}

\* What the description field can hold after an edit.
Descriptions == {Str(<<>>), Str(<<"g", "i", "a", "r", "d", "i", "n", "o">>)}

\* The arrays the Slider hands to handleChange while a thumb is dragged.
DragValues(sl) ==
    {<<SliderMin(sl), SliderMax(sl)>>, <<SliderMin(sl), SliderMin(sl)>>}

\* Number(clean) || 0 for the texts typed in the min and max inputs.
TypedNumbers == {0}

\* handleCommit: onCommit?.(draft), whatever the value prop is.
CommitArgumentFromProps(d, valueProp) == valueProp

CommitArgument(d, valueProp) == d

\* onCommit of FilterSection:
\* setFilter(prev => ({ ...prev, lower_x: lo, higher_x: hi }))
onCommitReplacing(f, sl, pair) ==
    [BASEFILTER EXCEPT ![LowerField(sl)] = Num(pair[1]),
                       ![HigherField(sl)] = Num(pair[2])]

onCommit(f, sl, pair) ==
    [f EXCEPT ![LowerField(sl)] = Num(pair[1]),
              ![HigherField(sl)] = Num(pair[2])]

\* The effect of DoubleSlider on [v0, v1]: the draft follows the value
\* prop when they differ.
SyncDraft(d, valueProp) == IF d # valueProp THEN valueProp ELSE d

\* if (res.ok) setResults(res.results)
ResultsAfterSubmitIgnoringOk(res, old) == res.results

ResultsAfterSubmit(res, old) ==
    IF res.ok = "true" THEN res.results ELSE old

\* The page App renders, tested in the order of its returns.
Page ==
    IF error.t = "object" THEN "message"
    ELSE IF loading THEN "loading"
    ELSE IF results.t # "null" /\ results.t # "undefined" THEN "results"
    ELSE "search"

\* The handler App binds to the button of MessagePage: the onClickFunc
\* property of the error object, or the default of MessagePage.
OnClickFunc(e) ==
    IF e.onClickFunc = "undefined" THEN "consoleError" ELSE e.onClickFunc

\* The error hook after a click on the button of MessagePage.
ErrorAfterClick(e) ==
    IF OnClickFunc(e) = "setErrorNull" THEN NoError ELSE e

(***************************************************************************)
(* The application                                                         *)
(***************************************************************************)
InitApp ==
    /\ pc = "app"
    /\ s = Undefined
    /\ options = Null
    /\ inputValue = Undefined
    /\ n1 = Pending
    /\ n2 = Pending
    /\ result = Pending
    /\ result2 = Pending
    /\ \E base \in BOOLEAN : AppInitial(base)
    /\ NoSpinner

\* The wizard takes clicks while App renders SearchPage; the reactions of
\* a submit run back to back once fetch has settled.
Interactive == Page = "search" /\ task = "idle"

\* buttonOnSubmit at step 0.
buttonOnSubmitStep0 ==
    /\ Interactive
    /\ step = 0
    /\ step' = step + 1
    /\ draft' = NoDraft
    /\ UNCHANGED <<filter, sectionError, error, loading, results, apiBase>>
    /\ UNCHANGED <<callVars, utilVars, spinnerVars>>

\* buttonOnSubmit at step 1.
buttonOnSubmitStep1 ==
    /\ Interactive
    /\ step = 1
    /\ sectionError' = IF CityMissing(filter.city) THEN CityRequired
                       ELSE "null"
    /\ step' = StepAfterProceed(step, CityMissing(filter.city))
    /\ UNCHANGED <<filter, draft, error, loading, results, apiBase>>
    /\ UNCHANGED <<callVars, utilVars, spinnerVars>>

\* buttonOnSubmit at step 2, up to its await: tempScrape calls
\* setLoading(true) and scrape, which throws when API_BASE is not set and
\* otherwise starts fetch and, in withTimeout, the timer.  App renders
\* LoadingPage, which unmounts SearchPage: its hooks start anew on the
\* next mount.
buttonOnSubmitStep2 ==
    /\ Interactive
    /\ step = 2
    /\ loading' = TRUE
    /\ payload' = filter
    /\ ret' = JsonNull
    /\ IF apiBase
       THEN /\ fetchP' = PendingPromise
            /\ timer' = "armed"
            /\ wtP' = PendingPromise
            /\ scrapeP' = PendingPromise
            /\ task' = "fetching"
       ELSE /\ fetchP' = NoPromise
            /\ timer' = "none"
            /\ wtP' = NoPromise
            /\ scrapeP' = Rejected("Error", ApiBaseNotSet)
            /\ task' = "scrapeSettled"
    /\ step' = 0
    /\ filter' = BASEFILTER
    /\ draft' = MountDraft(BASEFILTER)
    /\ sectionError' = "null"
    /\ UNCHANGED <<error, results, apiBase, utilVars, spinnerVars>>

\* buttonBackClick, where the button is rendered.  Arriving at step 0
\* mounts FilterSection and its sliders.
buttonBackClick ==
    /\ Interactive
    /\ BackOffered(step)
    /\ sectionError' = "null"
    /\ step' = StepAfterBack(step)
    /\ error' = IF step = 1 \/ step = 2 THEN error
                ELSE ErrorString(SubmitFailed)
    /\ draft' = IF step' = step THEN draft
                ELSE IF step' = 0 THEN MountDraft(filter) ELSE NoDraft
    /\ UNCHANGED <<filter, loading, results, apiBase>>
    /\ UNCHANGED <<callVars, utilVars, spinnerVars>>

\* handleSelect of CitySection, rendered at step 1.
handleSelect ==
    /\ Interactive
    /\ step = 1
    /\ \E val \in Selections : filter' = [filter EXCEPT !.city = val]
    /\ UNCHANGED <<step, draft, sectionError, error, loading, results>>
    /\ UNCHANGED apiBase
    /\ UNCHANGED <<callVars, utilVars, spinnerVars>>

\* The onClick of a type button of FilterSection.
typeOnClick ==
    /\ Interactive
    /\ step = 0
    /\ \E val \in TypeValues : filter' = [filter EXCEPT !.type = val]
    /\ UNCHANGED <<step, draft, sectionError, error, loading, results>>
    /\ UNCHANGED apiBase
    /\ UNCHANGED <<callVars, utilVars, spinnerVars>>

\* handleChange of a DoubleSlider: a thumb is dragged.
handleChange ==
    /\ Interactive
    /\ step = 0
    /\ \E sl \in Sliders : \E newValue \in DragValues(sl) :
          draft' = [draft EXCEPT ![sl] = newValue]
    /\ UNCHANGED <<step, filter, sectionError, error, loading, results>>
    /\ UNCHANGED apiBase
    /\ UNCHANGED <<callVars, utilVars, spinnerVars>>

\* The onChange of the min input of a DoubleSlider.
minInputOnChange ==
    /\ Interactive
    /\ step = 0
    /\ \E sl \in Sliders : \E num \in TypedNumbers :
          draft' = [draft EXCEPT ![sl] = <<num, draft[sl][2]>>]
    /\ UNCHANGED <<step, filter, sectionError, error, loading, results>>
    /\ UNCHANGED apiBase
    /\ UNCHANGED <<callVars, utilVars, spinnerVars>>

\* The onChange of the max input of a DoubleSlider.
maxInputOnChange ==
    /\ Interactive
    /\ step = 0
    /\ \E sl \in Sliders : \E num \in TypedNumbers :
          draft' = [draft EXCEPT ![sl] = <<draft[sl][1], num>>]
    /\ UNCHANGED <<step, filter, sectionError, error, loading, results>>
    /\ UNCHANGED apiBase
    /\ UNCHANGED <<callVars, utilVars, spinnerVars>>

\* handleCommit of a DoubleSlider: the slider is released.  The parent
\* renders with the new filter, and the effect of every slider compares
\* its draft with its new value prop.
handleCommit ==
    /\ Interactive
    /\ step = 0
    /\ \E sl \in Sliders :
          /\ filter' = onCommit(filter, sl,
                           CommitArgument(draft[sl], SliderValue(filter, sl)))
          /\ draft' = [draft EXCEPT
                          ![sl] = SyncDraft(draft[sl], SliderValue(filter', sl))]
    /\ UNCHANGED <<step, sectionError, error, loading, results, apiBase>>
    /\ UNCHANGED <<callVars, utilVars, spinnerVars>>

\* itemOnChange of WhySection.
itemOnChange ==
    /\ Interactive
    /\ step = 2
    /\ \E name \in WhyNames : filter' = [filter EXCEPT !.why = name]
    /\ UNCHANGED <<step, draft, sectionError, error, loading, results>>
    /\ UNCHANGED apiBase
    /\ UNCHANGED <<callVars, utilVars, spinnerVars>>

\* The onChange of the description field of WhySection.
descriptionOnChange ==
    /\ Interactive
    /\ step = 2
    /\ \E text \in Descriptions :
          filter' = [filter EXCEPT !.request_description = text]
    /\ UNCHANGED <<step, draft, sectionError, error, loading, results>>
    /\ UNCHANGED apiBase
    /\ UNCHANGED <<callVars, utilVars, spinnerVars>>

\* The network settles the promise of fetch.
FetchSettles ==
    /\ task = "fetching"
    /\ fetchP.state = "pending"
    /\ \E o \in FetchOutcomes : fetchP' = o
    /\ UNCHANGED <<pageVars, error, loading, results, apiBase>>
    /\ UNCHANGED <<task, payload, timer, wtP, scrapeP, ret, utilVars, spinnerVars>>

\* The callback of setTimeout in withTimeout: ctrl.abort().  No one holds
\* ctrl.signal, so nothing but the controller changes.
TimeoutFires ==
    /\ task = "fetching"
    /\ fetchP.state = "pending"
    /\ timer = "armed"
    /\ timer' = "fired"
    /\ UNCHANGED <<pageVars, error, loading, results, apiBase>>
    /\ UNCHANGED <<task, payload, fetchP, wtP, scrapeP, ret, utilVars, spinnerVars>>

\* The then and catch callbacks of withTimeout: clearTimeout(t) and the
\* outcome of fetch passed on.
WithTimeoutSettles ==
    /\ task = "fetching"
    /\ fetchP.state \in {"fulfilled", "rejected"}
    /\ wtP.state = "pending"
    /\ timer' = IF timer = "armed" THEN "cleared" ELSE timer
    /\ wtP' = fetchP
    /\ UNCHANGED <<pageVars, error, loading, results, apiBase>>
    /\ UNCHANGED <<task, payload, fetchP, scrapeP, ret, utilVars, spinnerVars>>

\* scrape from its await to its end.
ScrapeContinues ==
    /\ task = "fetching"
    /\ wtP.state \in {"fulfilled", "rejected"}
    /\ scrapeP' = ScrapeOutcome(wtP)
    /\ task' = "scrapeSettled"
    /\ UNCHANGED <<pageVars, error, loading, results, apiBase>>
    /\ UNCHANGED <<payload, fetchP, timer, wtP, ret, utilVars, spinnerVars>>

\* tempScrape from its await to its return.
TempScrapeContinues ==
    /\ task = "scrapeSettled"
    /\ IF scrapeP.state = "fulfilled"
       THEN /\ loading' = FALSE
            /\ ret' = scrapeP.value
            /\ error' = error
       ELSE /\ loading' = LoadingAfterCatch(loading)
            /\ error' = ErrorObject(UserMessage(scrapeP))
            /\ ret' = JsonNull
    /\ task' = "tempScrapeReturned"
    /\ UNCHANGED <<pageVars, results, apiBase>>
    /\ UNCHANGED <<payload, fetchP, timer, wtP, scrapeP, utilVars, spinnerVars>>

\* buttonOnSubmit at step 2 from its await to its end: res.ok throws on
\* null, and the catch sets the same string as the else branch.  With the
\* handler the request, its promises and its timer are gone.
ButtonOnSubmitContinues ==
    /\ task = "tempScrapeReturned"
    /\ IF ret.t # "null" /\ ret.ok = "true"
       THEN /\ results' = ResultsAfterSubmit(ret, results)
            /\ error' = error
       ELSE /\ results' = IF ret.t = "null" THEN results
                          ELSE ResultsAfterSubmit(ret, results)
            /\ error' = ErrorString(SubmitFailed)
    /\ task' = "idle"
    /\ payload' = Null
    /\ fetchP' = NoPromise
    /\ timer' = "none"
    /\ wtP' = NoPromise
    /\ scrapeP' = NoPromise
    /\ ret' = JsonNull
    /\ UNCHANGED <<pageVars, loading, apiBase, utilVars, spinnerVars>>

NextApp ==
    \/ buttonOnSubmitStep0
    \/ buttonOnSubmitStep1
    \/ buttonOnSubmitStep2
    \/ buttonBackClick
    \/ handleSelect
    \/ typeOnClick
    \/ handleChange
    \/ minInputOnChange
    \/ maxInputOnChange
    \/ handleCommit
    \/ itemOnChange
    \/ descriptionOnChange
    \/ FetchSettles
    \/ TimeoutFires
    \/ WithTimeoutSettles
    \/ ScrapeContinues
    \/ TempScrapeContinues
    \/ ButtonOnSubmitContinues

SpecApp == InitApp /\ [][NextApp]_vars

\* The reactions to a settled promise are jobs the event loop runs; the
\* network and the user are under no obligation.
SpecAppFair ==
    /\ SpecApp
    /\ WF_vars(WithTimeoutSettles)
    /\ WF_vars(ScrapeContinues)
    /\ WF_vars(TempScrapeContinues)
    /\ WF_vars(ButtonOnSubmitContinues)

(***************************************************************************)
(* Properties of the application                                           *)
(***************************************************************************)
Settled(p) == p.state \in {"fulfilled", "rejected"}

\* C15: when the timer of withTimeout has fired with fetch still pending,
\* the promise withTimeout returned is rejected with an AbortError.
C15_TimeoutRejects ==
    timer = "fired" => wtP.state = "rejected" /\ wtP.name = "AbortError"

\* C16: once tempScrape has caught a failure of scrape, the paragraph of
\* the error object is the timeout message for an abort, the server
\* message for a non-OK response, and the raw message of the error or the
\* generic fallback for any other failure.
C16_FailureMessages ==
    (task = "tempScrapeReturned" /\ scrapeP.state = "rejected") =>
        /\ error.t = "object"
        /\ IF scrapeP.name = "AbortError"
           THEN error.paragraph = TimeoutMessage
           ELSE IF fetchP.state = "fulfilled" /\ ~fetchP.ok
           THEN error.paragraph = ServerMessage
           ELSE error.paragraph \in {scrapeP.message, GenericMessage}

\* C17: results changes only in the continuation of a final submit whose
\* scrape call was fulfilled with an object having ok true, and then to
\* the results of that object; after a rejected scrape call tempScrape
\* returns null, and no step taken while the call stands rejected changes
\* results.
C17_ResultsOnlyFromOkResponse ==
    [][/\ results' # results =>
              /\ task = "tempScrapeReturned"
              /\ scrapeP.state = "fulfilled"
              /\ scrapeP.value.t = "object"
              /\ scrapeP.value.ok = "true"
              /\ results' = scrapeP.value.results
       /\ (task = "scrapeSettled" /\ scrapeP.state = "rejected") =>
              /\ task' = "tempScrapeReturned"
              /\ ret' = JsonNull
       /\ scrapeP.state = "rejected" => results' = results]_vars

\* A final submit has set results to the listings of an ok response, and
\* the wizard is replaced by the results page.
C17_Witness ==
    /\ task = "idle"
    /\ results = Listings
    /\ Page = "results"

\* C18: loading is true exactly while a final submit waits for its scrape
\* call, and whenever the promise of scrape settles loading is eventually
\* false.
C18_LoadingBracketsScrape ==
    /\ [](loading <=> task \in {"fetching", "scrapeSettled"})
    /\ (Settled(scrapeP) ~> ~loading)

\* tempScrape has caught a failure and reset loading.
C18_Witness ==
    /\ task = "tempScrapeReturned"
    /\ scrapeP.state = "rejected"
    /\ fetchP.state = "rejected"
    /\ ~loading

\* C19: the step in which buttonOnSubmit finishes after a failed scrape
\* call leaves error the object tempScrape built, so that App renders
\* MessagePage.
C19_ErrorPageShown ==
    [][(task = "tempScrapeReturned" /\ scrapeP.state = "rejected") =>
          /\ task' = "idle"
          /\ error' = ErrorObject(UserMessage(scrapeP))
          /\ error'.title = "Errore nella ricerca"
          /\ error'.t = "object"]_vars

\* C20: whenever error holds the object of a failed search, the handler
\* App binds to the button of MessagePage sets error to null, after which
\* App no longer renders MessagePage.
C20_ButtonClearsError ==
    error.t = "object" =>
        /\ OnClickFunc(error) = error.onClick
        /\ ErrorAfterClick(error) = NoError

(***************************************************************************)
(* Properties of the wizard                                                *)
(***************************************************************************)
\* C21: step is always 0, 1 or 2, whatever was clicked and however often
\* the final step was submitted, and at step 0 no Back click can happen.
C21_StepInRange ==
    /\ step \in {0, 1, 2}
    /\ step = 0 => ~ENABLED buttonBackClick

\* The wizard is at its final step again after a final submit that failed.
C21_Witness ==
    /\ Interactive
    /\ step = 2
    /\ error.t = "string"

\* C22: Proceed at step 1 with an empty or null city keeps step at 1 and
\* sets sectionError to the message, and with any other city clears
\* sectionError and moves to step 2; Proceed at step 0 moves to step 1
\* and touches neither sectionError nor the filter.
C22_CityValidated ==
    [][/\ buttonOnSubmitStep1 =>
              IF filter.city = Null \/ filter.city = Str(<<>>)
              THEN /\ step' = 1
                   /\ sectionError'
                          = "Inserire un comune valido per andare avanti"
              ELSE /\ step' = 2
                   /\ sectionError' = "null"
       /\ buttonOnSubmitStep0 =>
              /\ step' = 1
              /\ sectionError' = sectionError
              /\ filter' = filter]_vars

\* Proceed was refused at step 1 for an empty city.
C22_Witness ==
    /\ step = 1
    /\ filter.city = Str(<<>>)
    /\ sectionError = CityRequired

\* C23: Back at step 1 or 2 takes one from step, clears sectionError and
\* leaves filter, error, loading and results as they are.
C23_BackFrame ==
    [][(buttonBackClick /\ step \in {1, 2}) =>
          /\ step' = step - 1
          /\ sectionError' = "null"
          /\ UNCHANGED <<filter, error, loading, results>>]_vars

\* Back has led from the city step to step 0 with the city still chosen.
C23_Witness ==
    /\ Interactive
    /\ step = 0
    /\ filter.city = Roma
    /\ sectionError = "null"

PairChanged(sl) ==
    \/ filter'[LowerField(sl)] # filter[LowerField(sl)]
    \/ filter'[HigherField(sl)] # filter[HigherField(sl)]

\* C24: while FilterSection stays mounted, a step that changes the draft
\* of a slider leaves the filter unchanged, and a step that changes the
\* pair of filter fields of a slider sets it to the draft that slider had.
C24_CommitOnRelease ==
    [][(step = 0 /\ step' = 0) =>
          \A sl \in Sliders :
              /\ draft'[sl] # draft[sl] => filter' = filter
              /\ PairChanged(sl) =>
                     /\ filter'[LowerField(sl)] = Num(draft[sl][1])
                     /\ filter'[HigherField(sl)] = Num(draft[sl][2])
                     /\ draft' = draft]_vars

\* The rooms slider was released at [1, 1], then 0 was typed in its min
\* input: the draft has moved on, the filter holds the released pair.
C24_Witness ==
    /\ Interactive
    /\ step = 0
    /\ filter.lower_rooms = Num(1)
    /\ filter.higher_rooms = Num(1)
    /\ draft["rooms"] = <<0, 1>>

FieldGroups ==
    {{"type"}, {"lower_price", "higher_price"}, {"lower_mq", "higher_mq"},
     {"lower_rooms", "higher_rooms"}, {"city"}, {"why"},
     {"request_description"}}

SectionOf(g) ==
    IF g = {"city"} THEN 1
    ELSE IF g = {"why"} \/ g = {"request_description"} THEN 2
    ELSE 0

\* C25: a step within a section of the wizard that changes a field of the
\* filter changes only fields of one group (type, the pair of one slider,
\* city, why, request_description), the group belongs to that section,
\* and every other field keeps its value.
C25_FieldsPreserved ==
    [][step' = step =>
          \A g \in FieldGroups :
              (\E k \in g : filter'[k] # filter[k]) =>
                  /\ step = SectionOf(g)
                  /\ \A k \in DOMAIN filter \ g : filter'[k] = filter[k]]_vars

\* Every section has written its fields, none has lost what the others
\* wrote.
C25_Witness ==
    /\ Interactive
    /\ step = 2
    /\ filter.type = Num(1)
    /\ filter.lower_price = Num(0)
    /\ filter.higher_price = Num(0)
    /\ filter.lower_rooms = Num(0)
    /\ filter.city = Milano
    /\ filter.why \in WhyNames
    /\ filter.request_description # Str(<<>>)

NonEmptyString(x) == x.t = "string" /\ Len(x.v) > 0

\* C27: at step 2 the city of the filter is a non-empty string, and the
\* filter of every final submit in flight has a non-empty city.
C27_CityAtFinalStep ==
    /\ step = 2 => NonEmptyString(filter.city)
    /\ task # "idle" => NonEmptyString(payload.city)

\* A request is in flight, for Roma.
C27_Witness ==
    /\ task = "fetching"
    /\ fetchP.state = "pending"
    /\ payload.city = Roma
    /\ payload.type = Num(1)

(***************************************************************************)
(* UiComponents.jsx: LoadingSpinner                                        *)
(***************************************************************************)
MaxTicks == 12

\* const interval = 100
Interval == 100

\* The props a parent can pass.  The durations are such that the step per
\* tick is a whole number, which the addition in the tick keeps exact.
ValueProps == {Null, Num(0 - 20), Num(0), Num(50), Num(100), Num(150)}

TimeProps ==
    {Null, Num(0), Num(125), Num(250), Num(500), Num(625), Num(1000)}

Max(a, b) == IF a >= b THEN a ELSE b

Min(a, b) == IF a <= b THEN a ELSE b

\* const clamp = (n, min = 0, max = 100) => Math.max(min, Math.min(max, n))
clamp(n) == Max(0, Min(100, n))

\* Math.max(1, Number(time) || 0)
Total(tm) == Max(1, tm.v[1])

\* (100 * interval) / total
StepPerTick(tm) == (100 * Interval) \div Total(tm)

\* The updater of the interval callback.
ProgressAfterTickUncapped(old, stp) == old + stp

ProgressAfterTick(old, stp) ==
    IF old + stp >= 100 THEN 100 ELSE old + stp

Nullish(x) == x.t = "null" \/ x.t = "undefined"

\* The effect on [value]: a non-null value sets progress.
AfterValueEffect(p, v) == IF Nullish(v) THEN p ELSE clamp(v.v[1])

\* The effect on [time, value] starts the interval only when value is
\* null and time is not.
Timed(v, tm) == Nullish(v) /\ ~Nullish(tm)

\* A render whose props are v and tm, and its effects: the cleanup of the
\* previous timed effect, the effect on [value] if value changed, the
\* effect on [time, value] if either changed.  All of them run on mount.
Render(v, tm, mount) ==
    /\ value' = v
    /\ time' = tm
    /\ LET p == IF mount THEN 0 ELSE progress
           q == IF mount \/ v # value THEN AfterValueEffect(p, v) ELSE p
       IN  IF mount \/ v # value \/ tm # time
           THEN /\ progress' = IF Timed(v, tm) THEN 0 ELSE q
                /\ interval' = IF Timed(v, tm) THEN "running" ELSE "none"
                /\ ticks' = 0
           ELSE /\ progress' = q
                /\ UNCHANGED <<interval, ticks>>

InitSpinner ==
    /\ pc = "spinner"
    /\ s = Undefined
    /\ options = Null
    /\ inputValue = Undefined
    /\ n1 = Pending
    /\ n2 = Pending
    /\ result = Pending
    /\ result2 = Pending
    /\ AppInitial(TRUE)
    /\ \E v \in ValueProps : \E tm \in TimeProps :
          /\ value = v
          /\ time = tm
          /\ progress = IF Timed(v, tm) THEN 0 ELSE AfterValueEffect(0, v)
          /\ interval = IF Timed(v, tm) THEN "running" ELSE "none"
          /\ ticks = 0

\* The parent renders the spinner with other props.
Rerender ==
    /\ \E v \in ValueProps : \E tm \in TimeProps :
          /\ <<v, tm>> # <<value, time>>
          /\ Render(v, tm, FALSE)
    /\ UNCHANGED <<appVars, utilVars>>

\* The callback of setInterval.
Tick ==
    /\ interval = "running"
    /\ ticks < MaxTicks
    /\ progress' = ProgressAfterTick(progress, StepPerTick(time))
    /\ ticks' = ticks + 1
    /\ UNCHANGED <<value, time, interval, appVars, utilVars>>

NextSpinner == Rerender \/ Tick

SpecSpinner == InitSpinner /\ [][NextSpinner]_vars

====
